---- MODULE Spec2Model ----
(***************************************************************************)
(* Forward-pass control flow, expert gating and expert-weight sharding of  *)
(* server/text_generation_server/models/custom_modeling/                   *)
(* flash_deepseek_v2_modeling.py.                                          *)
(*                                                                         *)
(* Three specifications share the module:                                  *)
(*   Spec      the forward methods, run statement by statement by every    *)
(*             shard of a tensor-parallel group;                           *)
(*   SpecGate  the gate weights and the expert loop of DenseMoE.forward    *)
(*             on one token;                                               *)
(*   SpecLoad  _load_experts / _load_experts_quantized, run by every rank; *)
(*   SpecBuild DeepseekV2Config.__init__, then the __init__ of             *)
(*             DeepseekV2Attention on the configuration it built.          *)
(*                                                                         *)
(* A method is a sequence of statements.  A statement names the source     *)
(* line, the attributes it reads and what it does.  Reading an attribute   *)
(* that the object's __init__ never assigned raises AttributeError, as     *)
(* torch.nn.Module.__getattr__ does; nothing in the file catches it.       *)
(***************************************************************************)
EXTENDS Integers, Sequences, FiniteSets, TLC

VARIABLES
    cfg,      \* the configuration the modules were built from
    entry,    \* the forward method the caller invokes
    callNo,   \* number of the current forward call of the sequence
    phase,    \* "prefill" (cu_seqlen_prefill present) or "decode" (None)
    tokens,   \* number of new tokens of the current call
    seqLen,   \* tokens of the sequence so far, the current call's included
    stack,    \* per shard: the frames of the running call, innermost first
    status,   \* per shard: running | waiting | returned | raised
    exc,      \* per shard: the exception that ended the call, or NoExc
    cache,    \* per shard, per layer: the KV-cache slots written so far
    events,   \* per shard: the statements executed by the current call
    out,      \* per shard, per layer, per slot: what attention read for it
    gpc,      \* SpecGate: position in DenseMoE.forward
    top_k,    \* SpecGate: self.top_k
    probs,    \* SpecGate: the token's softmax row (all_probs)
    weights,  \* SpecGate: the token's gate weights (mutated by scatter_)
    masked,   \* SpecGate: not_selected_experts, the indices scatter_ wrote
    norm_p,   \* SpecGate: self.moe_normalize_expert_weights (0: not set)
    ghs,      \* SpecGate: the outputs of the experts evaluated, in order
    gout,     \* SpecGate: `out`, the token's accumulated output
    gnorm,    \* SpecGate: the norm the weights were divided by, or NoneVal
    lcfg,     \* SpecLoad: configuration and process group of the load
    lstat,    \* SpecLoad: per rank: position / outcome of the loader
    li,       \* SpecLoad: per rank: the loop index i
    taken,    \* SpecLoad: per rank, per expert: the checkpoint rows copied
    bpc,      \* SpecBuild: position in the constructors
    bin,      \* SpecBuild: the arguments and the process group
    bcfg,     \* SpecBuild: the DeepseekV2Config under construction
    battn,    \* SpecBuild: the DeepseekV2Attention under construction
    bexc      \* SpecBuild: the exception that ended construction, or NoExc

fwdVars  == <<cfg, entry, callNo, phase, tokens, seqLen, stack, status, exc,
              cache, events, out>>
gateVars == <<gpc, top_k, probs, weights, masked, norm_p, gnorm, ghs, gout>>
loadVars == <<lcfg, lstat, li, taken>>
buildVars == <<bpc, bin, bcfg, battn, bexc>>
vars     == <<fwdVars, gateVars, loadVars, buildVars>>

----------------------------------------------------------------------------
(* Bounds of the model *)

MaxWorld == 2
MaxLayers == 2
MaxExperts == 3
MaxTokens == 4
MaxProb == 2
MaxRows == 4
MaxHeads == 4

(* Python's None where an integer is expected *)
NoneVal == -1

NoExc == [type |-> "none", line |-> 0]

----------------------------------------------------------------------------
(* Construction: what each __init__ leaves on the object *)

(* The attributes each class's __init__ assigns (registered submodules     *)
(* included).  An attribute outside the set does not exist on the object.  *)
BoundAttrs(cls) ==
    CASE cls = "Attention" ->
            {"num_heads", "hidden_size", "head_size", "rotary_emb",
             "softmax_scale", "num_key_value_heads", "query",
             "kv_a_proj_with_mqa", "kv_a_layernorm", "kv_b_proj", "o_proj",
             "num_groups", "kv_head_mapping"}
      [] cls = "MLP" ->
            {"hidden_act", "act", "gate_up_proj", "down_proj",
             "intermediate_size", "quantize"}
      [] cls = "BlockSparseMoE" ->
            {"hidden_dim", "ffn_dim", "n_experts", "top_k",
             "routed_scaling_factor", "experts", "gate", "process_group"}
            \cup (IF cfg.n_shared_experts # NoneVal
                  THEN {"shared_experts"} ELSE {})
      [] cls = "DenseMoE" ->
            {"moe_normalize_expert_weights", "hidden_dim", "ffn_dim",
             "num_experts", "top_k", "act", "gate", "w1", "w2", "v1",
             "process_group"}
      [] cls = "Layer" ->
            {"self_attn", "mlp", "input_layernorm",
             "post_attention_layernorm"}
      [] cls = "Model" ->
            {"embed_tokens", "layers", "norm", "head_size", "num_heads",
             "num_key_value_heads"}

(* DeepseekV2Layer.__init__: the class of self.mlp for layer_id *)
MlpClass(c, layer_id) ==
    IF /\ c.n_routed_experts # NoneVal
       /\ layer_id >= c.first_k_dense_replace
       /\ layer_id % c.moe_layer_freq = 0
    THEN (IF c.quantize = "None" THEN "BlockSparseMoE" ELSE "DenseMoE")
    ELSE "MLP"

----------------------------------------------------------------------------
(* The forward methods, statement by statement *)

S(line, reads, op) == [line |-> line, reads |-> reads, op |-> op]

Own(cls, names) == {<<cls, n>> : n \in names}

(* DeepseekV2Attention.forward *)
AttentionForward == <<
    S(321, Own("Attention", {"query_key_value"}), "linear"),
    S(322, Own("Attention", {"clip_qkv"}), "clamp"),
    S(325, Own("Attention", {"head_size", "num_heads",
                             "num_key_value_heads"}), "split"),
    S(335, Own("Attention", {"rotary_emb"}), "rotary"),
    S(337, {}, "reshape_and_cache"),
    S(340, {}, "empty_like"),
    S(343, {}, "branch_prefill"),
    S(345, Own("Attention", {"softmax_scale"}), "attention"),
    S(356, Own("Attention", {"kv_head_mapping", "softmax_scale"}),
      "paged_attention"),
    S(368, Own("Attention", {"o_proj", "num_heads", "head_size"}),
      "row_linear"),
    S(368, {}, "return") >>

(* DeepseekV2MLP.forward(hidden_states, adapter_data) *)
MLPForward == <<
    S(410, {}, "bind_adapter_data"),
    S(426, Own("MLP", {"gate_up_proj", "intermediate_size", "act"}),
      "linear"),
    S(428, Own("MLP", {"down_proj"}), "row_linear"),
    S(428, {}, "return") >>

(* BlockSparseMoE.forward *)
BlockSparseMoEForward == <<
    S(486, Own("BlockSparseMoE", {"gate"}), "linear"),
    S(487, Own("BlockSparseMoE", {"wv1", "w2", "top_k",
                                  "moe_normalize_expert_weights"}),
      "fused_moe"),
    S(498, Own("BlockSparseMoE", {"process_group"}), "all_reduce"),
    S(501, {}, "return") >>

(* DenseMoE.forward *)
DenseMoEForward == <<
    S(565, Own("DenseMoE", {"gate"}), "linear"),
    S(567, {}, "softmax"),
    S(569, Own("DenseMoE", {"top_k", "num_experts"}), "mask"),
    S(581, Own("DenseMoE", {"moe_normalize_expert_weights"}), "renormalize"),
    S(588, Own("DenseMoE", {"hidden_dim"}), "new_zeros"),
    S(589, Own("DenseMoE", {"num_experts", "w1", "v1", "act", "w2"}),
      "experts_loop"),
    S(596, Own("DenseMoE", {"process_group"}), "all_reduce"),
    S(599, {}, "return") >>

(* DeepseekV2Layer.forward *)
LayerForward == <<
    S(648, Own("Layer", {"input_layernorm"}), "norm"),
    S(651, Own("Layer", {"self_attn"}), "call_attn"),
    S(664, Own("Layer", {"post_attention_layernorm"}), "norm"),
    S(668, Own("Layer", {"moe"}), "call_moe"),
    S(670, {}, "return") >>

(* DeepseekV2Model.forward *)
ModelForward == <<
    S(710, Own("Model", {"embed_tokens"}), "embed"),
    S(714, Own("Model", {"layers"}) \cup Own("Layer", {"attn"})
           \cup Own("Attention", {"rotary_emb"}), "get_cos_sin"),
    S(718, {}, "residual_none"),
    S(719, Own("Model", {"layers"}), "layers_loop"),
    S(733, Own("Model", {"norm"}), "final_norm"),
    S(735, {}, "return") >>

Program(fn) ==
    CASE fn = "Attention" -> AttentionForward
      [] fn = "MLP" -> MLPForward
      [] fn = "BlockSparseMoE" -> BlockSparseMoEForward
      [] fn = "DenseMoE" -> DenseMoEForward
      [] fn = "Layer" -> LayerForward
      [] fn = "Model" -> ModelForward

(* The attributes a statement reads that its object does not have *)
Missing(s) == {a \in s.reads : a[2] \notin BoundAttrs(a[1])}

(* Index of the first statement of fn that does op *)
StmtOf(fn, op) ==
    CHOOSE k \in DOMAIN Program(fn) :
        /\ Program(fn)[k].op = op
        /\ \A j \in 1..(k - 1) : Program(fn)[j].op # op

----------------------------------------------------------------------------
(* The tensor-parallel group and the arguments of the current call *)

Ranks == 0..(cfg.world_size - 1)

Layers == 0..(cfg.num_hidden_layers - 1)

(* `slots` of the current call: one fresh slot per new token *)
CallSlots == (seqLen - tokens)..(seqLen - 1)

(* The slots block_tables / input_lengths give a decode call to read *)
TableSlots == 0..(seqLen - 1)

(* A cache slot that was read before anything wrote it *)
Unwritten == -1

Ended(r) == status[r] \in {"returned", "raised"}

Frame(fn, layer, nargs) ==
    [fn |-> fn, pc |-> 1, layer |-> layer, idx |-> 0, nargs |-> nargs]

Event(f, op, line) ==
    [op |-> op, fn |-> f.fn, layer |-> f.layer, idx |-> f.idx, line |-> line]

(* A mutation of GroupReduces: only rank 0 issues the all-reduce *)
GroupReducesOnRankZero(r) == cfg.world_size > 1 /\ r = 0

(* torch.distributed.all_reduce is issued only by a sharded group          *)
(* (BlockSparseMoE.forward, DenseMoE.forward: process_group.size() > 1)    *)
GroupReduces(r) == cfg.world_size > 1

(* TensorParallelRowLinear.forward: all-reduce of the partial outputs      *)
RowLinearReduces(r) == cfg.world_size > 1

----------------------------------------------------------------------------
(* One statement of one shard *)

(* The frames after the statement s of the innermost frame f has run *)
StackAfter(r, f, s) ==
    LET rest == Tail(stack[r])
        goto(k) == <<[f EXCEPT !.pc = k]>> \o rest
    IN CASE s.op = "return" -> rest
         [] s.op = "call_attn" ->
              <<Frame("Attention", f.layer, 9)>> \o goto(f.pc + 1)
         [] s.op = "call_moe" ->
              <<Frame(MlpClass(cfg, f.layer), f.layer, 1)>> \o goto(f.pc + 1)
         [] s.op = "layers_loop" ->
              IF f.idx < cfg.num_hidden_layers
              THEN <<Frame("Layer", f.idx, 10)>>
                   \o <<[f EXCEPT !.idx = f.idx + 1]>> \o rest
              ELSE goto(f.pc + 1)
         [] s.op = "experts_loop" ->
              IF f.idx < cfg.num_experts
              THEN <<[f EXCEPT !.idx = f.idx + 1]>> \o rest
              ELSE goto(f.pc + 1)
         [] s.op = "branch_prefill" ->
              IF phase = "prefill"
              THEN goto(StmtOf(f.fn, "attention"))
              ELSE goto(StmtOf(f.fn, "paged_attention"))
         [] s.op = "attention" -> goto(StmtOf(f.fn, "row_linear"))
         [] OTHER -> goto(f.pc + 1)

(* Whether the statement ends in a collective the shard must wait at *)
Collective(r, s) ==
    \/ s.op = "all_reduce" /\ GroupReduces(r)
    \/ s.op = "row_linear" /\ RowLinearReduces(r)

(* What the statement adds to the shard's log *)
EventsAfter(r, f, s) ==
    CASE s.op = "all_reduce" ->
            IF Collective(r, s) THEN <<Event(f, "all_reduce", s.line)>>
            ELSE <<>>
      [] s.op = "row_linear" ->
            <<Event(f, "row_linear", s.line)>>
            \o (IF Collective(r, s) THEN <<Event(f, "all_reduce", s.line)>>
                ELSE <<>>)
      [] s.op = "layers_loop" ->
            IF f.idx < cfg.num_hidden_layers
            THEN <<Event(f, "layers_loop", s.line)>> ELSE <<>>
      [] s.op = "experts_loop" ->
            IF f.idx < cfg.num_experts
            THEN <<Event(f, "experts_loop", s.line)>> ELSE <<>>
      [] OTHER -> <<Event(f, s.op, s.line)>>

(* reshape_and_cache(kv[:, 0], kv[:, 1], kv_cache[0], kv_cache[1], slots) *)
CacheAfter(r, f, s) ==
    IF s.op = "reshape_and_cache"
    THEN [cache[r] EXCEPT ![f.layer] = @ \cup CallSlots]
    ELSE cache[r]

(* attention(query, key, value, ..., cu_seqlen_prefill, ...): every new    *)
(* token attends, causally, to the call's own fresh keys and values        *)
FlashAttention(p) == {q \in CallSlots : q <= p}

(* paged_attention(..., kv_cache[0], kv_cache[1], ..., block_tables,       *)
(* input_lengths, ...): the new token attends to the cache slots its       *)
(* block table lists, whatever they hold                                   *)
PagedAttention(r, layer, p) ==
    {q \in TableSlots : q \in cache[r][layer]}
    \cup (IF TableSlots \subseteq cache[r][layer] THEN {} ELSE {Unwritten})

OutAfter(r, f, s) ==
    CASE s.op = "attention" ->
            [out[r] EXCEPT ![f.layer] =
                [p \in 0..(MaxTokens - 1) |->
                    IF p \in CallSlots THEN FlashAttention(p) ELSE @[p]]]
      [] s.op = "paged_attention" ->
            [out[r] EXCEPT ![f.layer] =
                [p \in 0..(MaxTokens - 1) |->
                    IF p \in CallSlots THEN PagedAttention(r, f.layer, p)
                    ELSE @[p]]]
      [] OTHER -> out[r]

(* The exception the statement raises, or NoExc *)
Raises(f, s) ==
    IF Missing(s) # {} THEN [type |-> "AttributeError", line |-> s.line]
    ELSE IF s.op = "bind_adapter_data" /\ f.nargs < 2
         THEN [type |-> "TypeError", line |-> s.line]
         ELSE NoExc

Step(r) ==
    /\ status[r] = "running"
    /\ LET f == Head(stack[r])
           s == Program(f.fn)[f.pc]
           e == Raises(f, s)
       IN IF e # NoExc
          THEN /\ status' = [status EXCEPT ![r] = "raised"]
               /\ exc' = [exc EXCEPT ![r] = e]
               /\ stack' = [stack EXCEPT ![r] = <<>>]
               /\ UNCHANGED <<cache, events, out>>
          ELSE /\ events' = [events EXCEPT ![r] = @ \o EventsAfter(r, f, s)]
               /\ cache' = [cache EXCEPT ![r] = CacheAfter(r, f, s)]
               /\ out' = [out EXCEPT ![r] = OutAfter(r, f, s)]
               /\ exc' = exc
               /\ IF Collective(r, s)
                  THEN /\ status' = [status EXCEPT ![r] = "waiting"]
                       /\ stack' = stack
                  ELSE /\ stack' = [stack EXCEPT ![r] = StackAfter(r, f, s)]
                       /\ status' = [status EXCEPT ![r] =
                              IF StackAfter(r, f, s) = <<>> THEN "returned"
                              ELSE "running"]
    /\ UNCHANGED <<cfg, entry, callNo, phase, tokens, seqLen>>
    /\ UNCHANGED <<gateVars, loadVars, buildVars>>

(* The all-reduce completes once every shard of the group has issued it *)
AllReduce ==
    /\ \A r \in Ranks : status[r] = "waiting"
    /\ status' = [r \in Ranks |-> "running"]
    /\ stack' = [r \in Ranks |->
          <<[Head(stack[r]) EXCEPT !.pc = @ + 1]>> \o Tail(stack[r])]
    /\ UNCHANGED <<cfg, entry, callNo, phase, tokens, seqLen, exc, cache,
                   events, out>>
    /\ UNCHANGED <<gateVars, loadVars, buildVars>>

(* The serving loop's next call for the sequence: one decode step.  The    *)
(* MoE blocks take no phase argument; a sequence of calls is modelled for  *)
(* the methods that do.                                                    *)
NextCall ==
    /\ entry \in {"Model", "Layer", "Attention"}
    /\ \A r \in Ranks : Ended(r)
    /\ seqLen < MaxTokens
    /\ callNo' = callNo + 1
    /\ phase' = "decode"
    /\ tokens' = 1
    /\ seqLen' = seqLen + 1
    /\ stack' = [r \in Ranks |-> <<Frame(entry, 0, 9)>>]
    /\ status' = [r \in Ranks |-> "running"]
    /\ exc' = [r \in Ranks |-> NoExc]
    /\ events' = [r \in Ranks |-> <<>>]
    /\ UNCHANGED <<cfg, entry, cache, out>>
    /\ UNCHANGED <<gateVars, loadVars, buildVars>>

(* DeepseekV2Config's defaults for what the model reads *)
DefaultCfg ==
    [world_size |-> 1, num_hidden_layers |-> 1, n_routed_experts |-> NoneVal,
     n_shared_experts |-> NoneVal, first_k_dense_replace |-> 0,
     moe_layer_freq |-> 1, quantize |-> "None", num_experts |-> 1]

(* The configurations each entry point is built from: the fields its       *)
(* class reads vary, the others keep their defaults.  DenseMoE.__init__    *)
(* reads config.ffn_config and config.d_model, which DeepseekV2Config does *)
(* not define: a DenseMoE exists only for a configuration that carries     *)
(* them, and num_experts stands for its ffn_config.moe_num_experts.        *)
Cfgs(e) ==
    CASE e = "Attention" ->
            {[DefaultCfg EXCEPT !.world_size = w] : w \in 1..MaxWorld}
      [] e = "DenseMoE" ->
            {[DefaultCfg EXCEPT !.world_size = w, !.num_experts = n,
                                !.n_routed_experts = n, !.quantize = "fp8"] :
                w \in 1..MaxWorld, n \in 1..MaxExperts}
      [] e = "BlockSparseMoE" ->
            {[DefaultCfg EXCEPT !.world_size = w, !.num_experts = n,
                                !.n_routed_experts = n,
                                !.n_shared_experts = sh] :
                w \in 1..MaxWorld, n \in 1..MaxExperts, sh \in {NoneVal, 1}}
      [] e \in {"Layer", "Model"} ->
            {[DefaultCfg EXCEPT !.world_size = w, !.num_hidden_layers = l,
                                !.n_routed_experts = n,
                                !.num_experts = IF n = NoneVal THEN 1 ELSE n,
                                !.n_shared_experts = sh,
                                !.first_k_dense_replace = k,
                                !.moe_layer_freq = m, !.quantize = q] :
                w \in 1..MaxWorld,
                l \in (IF e = "Model" THEN 1..MaxLayers ELSE {1}),
                n \in {NoneVal, MaxExperts}, sh \in {NoneVal, 1},
                k \in 0..1, m \in 1..2, q \in {"None", "fp8"}}

Entries == {"Model", "Layer", "Attention", "BlockSparseMoE", "DenseMoE"}

FwdIdle ==
    /\ cfg = DefaultCfg /\ entry = "idle" /\ callNo = 0 /\ phase = "idle"
    /\ tokens = 0 /\ seqLen = 0 /\ stack = <<>> /\ status = <<>>
    /\ exc = <<>> /\ cache = <<>> /\ events = <<>> /\ out = <<>>

GateIdle ==
    /\ gpc = "idle" /\ top_k = 0 /\ probs = <<>> /\ weights = <<>>
    /\ masked = {} /\ norm_p = 0 /\ gnorm = NoneVal
    /\ ghs = <<>> /\ gout = <<>>

LoadIdle ==
    /\ lcfg = [fn |-> "idle"] /\ lstat = <<>> /\ li = <<>> /\ taken = <<>>

BuildIdle ==
    /\ bpc = "idle" /\ bin = <<>> /\ bcfg = <<>> /\ battn = <<>>
    /\ bexc = NoExc

Init ==
    /\ entry \in Entries
    /\ cfg \in Cfgs(entry)
    /\ callNo = 1
    /\ phase = "prefill"
    /\ tokens \in (IF entry \in {"Model", "Layer", "Attention"}
                   THEN 1..MaxTokens ELSE {1})
    /\ seqLen = tokens
    /\ stack = [r \in Ranks |-> <<Frame(entry, 0, 9)>>]
    /\ status = [r \in Ranks |-> "running"]
    /\ exc = [r \in Ranks |-> NoExc]
    /\ cache = [r \in Ranks |-> [l \in Layers |-> {}]]
    /\ events = [r \in Ranks |-> <<>>]
    /\ out = [r \in Ranks |-> [l \in Layers |->
                [p \in 0..(MaxTokens - 1) |-> {}]]]
    /\ GateIdle
    /\ LoadIdle
    /\ BuildIdle

Next ==
    \/ \E r \in Ranks : Step(r)
    \/ AllReduce
    \/ NextCall

Spec == Init /\ [][Next]_vars

----------------------------------------------------------------------------
(* Reading the log of a shard *)

Kernels == {"attention", "paged_attention"}

(* Positions of the log of r whose statement is one of ops *)
At(r, ops) == {i \in DOMAIN events[r] : events[r][i].op \in ops}

(* The layers whose DeepseekV2Attention.forward the current call entered *)
AttentionCalls(r) ==
    IF entry = "Attention" THEN {0}
    ELSE {events[r][i].layer : i \in At(r, {"call_attn"})}

(* The layers whose DeepseekV2Layer.forward the current call entered *)
LayerCalls(r) ==
    IF entry = "Layer" THEN {0}
    ELSE {events[r][i].idx : i \in At(r, {"layers_loop"})}

(* The all-reduce operations the shard has issued, in order *)
Collectives(r) == SelectSeq(events[r], LAMBDA e : e.op = "all_reduce")

----------------------------------------------------------------------------
C2_ExactlyOneKernel ==
    \A r \in Ranks :
        Ended(r) =>
            \A l \in AttentionCalls(r) :
                LET ks == {i \in At(r, Kernels) : events[r][i].layer = l}
                IN /\ Cardinality(ks) = 1
                   /\ \A i \in ks :
                         events[r][i].op = "attention" <=> phase = "prefill"

(* C3: a call of DeepseekV2Model.forward that is over ran the layers       *)
(* 0..N-1 once each in index order, layer i on kv_cache[i], and applied    *)
(* the final normalization once, after the last layer.                     *)
C3_LayersInOrder ==
    \A r \in Ranks :
        (entry = "Model" /\ Ended(r)) =>
            LET ls == SelectSeq(events[r], LAMBDA e : e.op = "layers_loop")
                ns == At(r, {"final_norm"})
            IN /\ Len(ls) = cfg.num_hidden_layers
               /\ \A k \in DOMAIN ls : ls[k].idx = k - 1
               /\ Cardinality(ns) = 1
               /\ \A n \in ns : \A i \in At(r, {"layers_loop"}) : i < n

(* What one prefill call over the whole sequence gives position p:         *)
(* attention over the positions up to and including p                      *)
CausalOut(p) == 0..p

(* C4: after a 1-token prefill and 3 decode calls of                       *)
(* DeepseekV2Attention.forward on unique slots, every position holds the   *)
(* attention output of the one-shot 4-token prefill.                       *)
C4_DecodeEqualsPrefill ==
    (entry = "Attention" /\ callNo = 4 /\ seqLen = 4
        /\ \A r \in Ranks : Ended(r)) =>
            \A r \in Ranks : \A p \in 0..3 : out[r][0][p] = CausalOut(p)

C6_TwoAllReduces ==
    \A r \in Ranks :
        (cfg.world_size > 1 /\ Ended(r)) =>
            \A l \in LayerCalls(r) :
                LET cs == {i \in At(r, {"all_reduce"}) : events[r][i].layer = l}
                IN /\ Cardinality(cs) = 2
                   /\ \E i \in cs : events[r][i].fn = "Attention"
                   /\ \E i \in cs : events[r][i].fn # "Attention"

(* C13: a call of DeepseekV2Layer.forward that is over invoked the block   *)
(* DeepseekV2Layer.__init__ constructed for the layer (MlpClass), and no   *)
(* other feed-forward block.                                               *)
C13_LayerRoutesThroughConstructedBlock ==
    \A r \in Ranks :
        Ended(r) =>
            \A l \in LayerCalls(r) :
                /\ \E i \in At(r, {"call_moe"}) : events[r][i].layer = l
                /\ \E i \in DOMAIN events[r] :
                      /\ events[r][i].layer = l
                      /\ events[r][i].fn = MlpClass(cfg, l)
                /\ \A i \in DOMAIN events[r] :
                      events[r][i].layer = l =>
                          events[r][i].fn \in
                              {"Layer", "Attention", MlpClass(cfg, l)}

(* C14: with n_shared_experts set, a call of DeepseekV2Layer.forward that  *)
(* is over, on a layer whose block is a MoE, applied the shared experts    *)
(* in the layer, after the MoE block.                                      *)
C14_SharedExpertsAdded ==
    \A r \in Ranks :
        (Ended(r) /\ cfg.n_shared_experts # NoneVal) =>
            \A l \in LayerCalls(r) :
                MlpClass(cfg, l) # "MLP" =>
                    \E i \in At(r, {"shared_experts"}) :
                        /\ events[r][i].layer = l
                        /\ events[r][i].fn = "Layer"
                        /\ \E j \in At(r, {"call_moe"}) :
                              j < i /\ events[r][j].layer = l

----------------------------------------------------------------------------
(* DenseMoE.forward: the gate weights of one token *)

RECURSIVE SumOver(_, _)
(* The sum of w over the indices in I *)
SumOver(w, I) ==
    IF I = {} THEN 0
    ELSE LET a == CHOOSE x \in I : TRUE IN w[a] + SumOver(w, I \ {a})

(* A mutation of NotSelectedChoices: topk without largest=False *)
LargestChoices(w, m) ==
    {T \in SUBSET DOMAIN w :
        /\ Cardinality(T) = m
        /\ \A a \in T : \A b \in DOMAIN w \ T : w[a] >= w[b]}

(* torch.topk(weights, m, largest=False, sorted=False, dim=1): the index   *)
(* sets topk may return, m indices of smallest weights, ties broken any way *)
NotSelectedChoices(w, m) ==
    {T \in SUBSET DOMAIN w :
        /\ Cardinality(T) = m
        /\ \A a \in T : \A b \in DOMAIN w \ T : w[a] <= w[b]}

(* A mutation of MaskCount: top_k where num_experts - top_k is meant *)
MaskCountTopK(n, k) == k

(* The number of experts to mask: self.num_experts - self.top_k *)
MaskCount(n, k) == n - k

(* weights.scatter_(1, not_selected_experts, 0) *)
Scatter(w, T) == [i \in DOMAIN w |-> IF i \in T THEN 0 ELSE w[i]]

(* weights = softmax(gate_logits); if self.top_k < self.num_experts:       *)
(* topk(..., largest=False) and scatter_                                   *)
GateMask ==
    /\ gpc = "mask"
    /\ IF top_k < Len(weights)
       THEN \E T \in NotSelectedChoices(weights,
                                        MaskCount(Len(weights), top_k)) :
                /\ weights' = Scatter(weights, T)
                /\ masked' = T
       ELSE UNCHANGED <<weights, masked>>
    /\ gpc' = "renormalize"
    /\ UNCHANGED <<top_k, probs, norm_p, gnorm, ghs, gout>>
    /\ UNCHANGED <<fwdVars, loadVars, buildVars>>

(* A float of the output: a number, in units of 1 / gnorm, or NaN *)
Num(x) == [nan |-> FALSE, num |-> x]

NaN == [nan |-> TRUE, num |-> 0]

(* h * weights[:, i]: the weight is weights[i] / gnorm after the           *)
(* renormalization, and 0 / 0 is NaN                                       *)
Scaled(h, w, nrm) == IF nrm = 0 THEN NaN ELSE Num(h * w)

(* A mutation of Accumulate: out = where out += is meant *)
AccumulateOverwrites(acc, term) == term

(* out += term *)
Accumulate(acc, term) ==
    IF acc.nan \/ term.nan THEN NaN ELSE Num(acc.num + term.num)

(* What an expert returns for the token: a finite number of either sign *)
ExpertOutputs == {-1, 1}

(* if self.moe_normalize_expert_weights: weights = weights / norm(weights, *)
(* p).  The quotient is kept as the weights over gnorm; p = 1, the sum of  *)
(* the non-negative weights, is the order modelled.  A row of zeros gives  *)
(* gnorm = 0: the division torch leaves to floating point.  Then           *)
(* out = x.new_zeros(...).                                                 *)
GateRenormalize ==
    /\ gpc = "renormalize"
    /\ gnorm' = IF norm_p # 0 THEN SumOver(weights, DOMAIN weights)
                ELSE NoneVal
    /\ gout' = Num(0)
    /\ gpc' = "experts"
    /\ UNCHANGED <<top_k, probs, weights, masked, norm_p, ghs>>
    /\ UNCHANGED <<fwdVars, loadVars, buildVars>>

(* One turn of `for i in range(self.num_experts)`: expert i is evaluated   *)
(* on the token and its output, scaled by the token's weight for i, is     *)
(* added to out; after the last expert the loop is left                    *)
GateExpert ==
    /\ gpc = "experts"
    /\ LET i == Len(ghs) + 1
       IN \E h \in ExpertOutputs :
            /\ ghs' = Append(ghs, [expert |-> i, h |-> h])
            /\ gout' = Accumulate(gout, Scaled(h, weights[i], gnorm))
            /\ gpc' = IF i = Len(weights) THEN "reduce" ELSE "experts"
    /\ UNCHANGED <<top_k, probs, weights, masked, norm_p, gnorm>>
    /\ UNCHANGED <<fwdVars, loadVars, buildVars>>

(* The softmax row of a token: non-negative and not all zero, in units of  *)
(* a common denominator; equal entries and entries that underflow to 0     *)
(* included                                                                *)
GateInit ==
    /\ gpc = "mask"
    /\ \E n \in 1..MaxExperts :
          /\ probs \in {p \in [1..n -> 0..MaxProb] : \E i \in 1..n : p[i] > 0}
          /\ top_k \in 0..(n + 1)
    /\ norm_p \in 0..1
    /\ weights = probs
    /\ masked = {}
    /\ gnorm = NoneVal
    /\ ghs = <<>>
    /\ gout = Num(0)
    /\ FwdIdle
    /\ LoadIdle
    /\ BuildIdle

GateNext == GateMask \/ GateRenormalize \/ GateExpert

SpecGate == GateInit /\ [][GateNext]_vars

(* The largest sum k entries of w can have: the sum of its k largest *)
TopKSum(w, k) ==
    LET sums == {SumOver(w, T) : T \in {U \in SUBSET DOMAIN w :
                                            Cardinality(U) = k}}
    IN CHOOSE s \in sums : \A u \in sums : u <= s

(* C7: after the masking and before the renormalization the gate weights   *)
(* of a token sum to the sum of its top_k largest softmax probabilities,   *)
(* and every weight that was not masked is the probability it was.         *)
C7_MaskedSumIsTopKSum ==
    (gpc = "renormalize" /\ top_k <= Len(probs)) =>
        /\ SumOver(weights, DOMAIN weights) = TopKSum(probs, top_k)
        /\ \A i \in DOMAIN weights \ masked : weights[i] = probs[i]

(* C7's case: a token masked with 0 < top_k < n_experts whose              *)
(* probabilities are not all equal and tie across the top_k boundary       *)
C7_Witness ==
    /\ gpc = "renormalize"
    /\ 0 < top_k /\ top_k < Len(probs)
    /\ masked # {}
    /\ \E a \in masked : \E b \in DOMAIN probs \ masked :
          probs[a] = probs[b] /\ probs[a] > 0
    /\ \E a \in DOMAIN probs : \E b \in DOMAIN probs : probs[a] # probs[b]

(* C8: the masking zeroes exactly n_experts - top_k gate weights for every *)
(* top_k <= n_experts, ties or not; with top_k = n_experts nothing is      *)
(* masked and the weights are the probabilities.                           *)
C8_MaskedCount ==
    (gpc = "renormalize" /\ top_k <= Len(probs)) =>
        /\ Cardinality(masked) = Len(probs) - top_k
        /\ \A i \in masked : weights[i] = 0
        /\ top_k = Len(probs) => (masked = {} /\ weights = probs)

(* C8's case: a token whose experts all have the same score, masked with   *)
(* 0 < top_k < n_experts                                                   *)
C8_Witness ==
    /\ gpc = "renormalize"
    /\ 0 < top_k /\ top_k < Len(probs)
    /\ \A a \in DOMAIN probs : \A b \in DOMAIN probs : probs[a] = probs[b]
    /\ probs[1] > 0
    /\ Cardinality(masked) = Len(probs) - top_k

----------------------------------------------------------------------------
(* _load_experts and _load_experts_quantized, run by every rank *)

LoadRanks == 0..(lcfg.world_size - 1)

(* The dimension the loader's assert tests against world_size:             *)
(* config.hidden_size in _load_experts, config.ffn_config.ffn_hidden_size  *)
(* in _load_experts_quantized                                              *)
AssertedDim ==
    IF lcfg.fn = "_load_experts" THEN lcfg.hidden_size ELSE lcfg.expert_size

(* block_size = expert_size // world_size *)
BlockSize == lcfg.expert_size \div lcfg.world_size

(* The rows of the checkpoint tensor: expert_size rows per expert *)
CheckpointRows == 0..(lcfg.n_experts * lcfg.expert_size - 1)

(* slice_[start + offset : stop + offset] with start = rank * block_size,  *)
(* stop = (rank + 1) * block_size, offset = i * expert_size; a slice past  *)
(* the end of the tensor is cut to the rows there are                      *)
ExpertRows(r, i) ==
    LET start == r * BlockSize
        stop == (r + 1) * BlockSize
        offset == i * lcfg.expert_size
    IN (start + offset)..(stop + offset - 1) \cap CheckpointRows

(* The assert, then the allocation of the result *)
LoadAssert(r) ==
    /\ lstat[r] = "assert"
    /\ lstat' = [lstat EXCEPT ![r] =
          IF AssertedDim % lcfg.world_size = 0 THEN "loop"
          ELSE "AssertionError"]
    /\ UNCHANGED <<lcfg, li, taken>>
    /\ UNCHANGED <<fwdVars, gateVars, buildVars>>

(* One pass of the loop head and body: for i in range(n_routing_experts)   *)
(* in _load_experts, range(moe_num_experts) in _load_experts_quantized     *)
LoadLoop(r) ==
    /\ lstat[r] = "loop"
    /\ IF lcfg.n_loop = NoneVal
       THEN /\ lstat' = [lstat EXCEPT ![r] = "AttributeError"]
            /\ UNCHANGED <<li, taken>>
       ELSE IF li[r] >= lcfg.n_loop
       THEN /\ lstat' = [lstat EXCEPT ![r] = "returned"]
            /\ UNCHANGED <<li, taken>>
       ELSE IF lcfg.fn = "_load_experts_quantized"
               /\ lcfg.quantize \in {"gptq", "awq"}
       THEN /\ lstat' = [lstat EXCEPT ![r] = "NotImplementedError"]
            /\ UNCHANGED <<li, taken>>
       ELSE /\ taken' = [taken EXCEPT ![r] =
                  IF li[r] \in DOMAIN @
                  THEN [@ EXCEPT ![li[r]] = ExpertRows(r, li[r])]
                  ELSE @]
            /\ li' = [li EXCEPT ![r] = @ + 1]
            /\ lstat' = lstat
    /\ UNCHANGED lcfg
    /\ UNCHANGED <<fwdVars, gateVars, buildVars>>

(* The configurations and process groups of a load.  n_loop is the loop    *)
(* bound: config.n_routing_experts, which DeepseekV2Config does not define *)
(* (NoneVal) unless the checkpoint's configuration carries it, in          *)
(* _load_experts; moe_num_experts in _load_experts_quantized               *)
LoadCfgs ==
    {[fn |-> "_load_experts", world_size |-> w, hidden_size |-> h,
      expert_size |-> e, n_experts |-> n, n_loop |-> k, quantize |-> "None"] :
        w \in 1..MaxWorld, h \in 1..MaxRows, e \in 1..MaxRows,
        n \in 1..MaxExperts, k \in {NoneVal} \cup 1..MaxExperts}
    \cup
    {[fn |-> "_load_experts_quantized", world_size |-> w, hidden_size |-> 1,
      expert_size |-> e, n_experts |-> n, n_loop |-> n, quantize |-> q] :
        w \in 1..MaxWorld, e \in 1..MaxRows, n \in 1..MaxExperts,
        q \in {"fp8", "gptq", "awq"}}

LoadInit ==
    /\ lcfg \in LoadCfgs
    /\ lstat = [r \in LoadRanks |-> "assert"]
    /\ li = [r \in LoadRanks |-> 0]
    /\ taken = [r \in LoadRanks |-> [i \in 0..(lcfg.n_experts - 1) |-> {}]]
    /\ FwdIdle
    /\ GateIdle
    /\ BuildIdle

LoadNext ==
    \/ \E r \in LoadRanks : LoadAssert(r)
    \/ \E r \in LoadRanks : LoadLoop(r)

SpecLoad == LoadInit /\ [][LoadNext]_vars

LoadEnded(r) == lstat[r] \notin {"assert", "loop"}

(* C9: when the expert intermediate size is not a multiple of world_size   *)
(* the loaders build no sharded expert weights: no rank copies a row and   *)
(* no rank returns.                                                        *)
C9_UnevenSplitFails ==
    (lcfg.expert_size % lcfg.world_size # 0) =>
        \A r \in LoadRanks :
            /\ lstat[r] # "returned"
            /\ \A i \in DOMAIN taken[r] : taken[r][i] = {}

(* C10: when world_size divides the expert intermediate size (and the      *)
(* quantization is one the loader supports) the loads return, and the rows *)
(* the ranks took for expert i are pairwise disjoint and together expert   *)
(* i's rows i*expert_size .. (i+1)*expert_size - 1, for every expert.      *)
C10_ShardsPartitionExperts ==
    (/\ lcfg.expert_size % lcfg.world_size = 0
     /\ lcfg.quantize \notin {"gptq", "awq"}
     /\ \A r \in LoadRanks : LoadEnded(r)) =>
        /\ \A r \in LoadRanks : lstat[r] = "returned"
        /\ \A i \in 0..(lcfg.n_experts - 1) :
              /\ UNION {taken[r][i] : r \in LoadRanks}
                    = (i * lcfg.expert_size)..((i + 1) * lcfg.expert_size - 1)
              /\ \A r1 \in LoadRanks : \A r2 \in LoadRanks :
                    r1 # r2 => taken[r1][i] \cap taken[r2][i] = {}

----------------------------------------------------------------------------
(* DeepseekV2Config.__init__, then DeepseekV2Attention.__init__ *)

(* The named parameters of DeepseekV2Config.__init__ that the model reads. *)
(* A keyword argument with the name of a parameter is bound to the         *)
(* parameter and never reaches **kwargs.                                   *)
ConfigParams ==
    {"hidden_size", "num_attention_heads", "num_key_value_heads",
     "tie_word_embeddings"}

(* The keyword arguments of the call, by name *)
PassedKeywords ==
    (IF bin.tie_how = "keyword" THEN {"tie_word_embeddings"} ELSE {})
    \cup (IF bin.extra THEN {"torch_dtype"} ELSE {})

(* **kwargs of DeepseekV2Config.__init__ for the call *)
Kwargs == PassedKeywords \ ConfigParams

(* kwargs.pop("tie_word_embeddings", False) *)
PopTie == IF "tie_word_embeddings" \in Kwargs THEN bin.tie ELSE FALSE

(* A mutation of HeadsFit: the test made on num_key_value_heads *)
KVHeadsFit(heads, kv_heads, world) == kv_heads % world = 0

(* DeepseekV2Attention.__init__: num_heads % process_group.size() == 0 *)
HeadsFit(heads, kv_heads, world) == heads % world = 0

(* The weights DeepseekV2Attention.__init__ loads, in the order it does *)
AttnLoads ==
    <<"query", "kv_a_proj_with_mqa", "kv_a_layernorm", "kv_b_proj", "o_proj">>

(* self.<hyperparameter> = <argument>; num_key_value_heads defaults to     *)
(* num_attention_heads                                                     *)
ConfigBind ==
    /\ bpc = "config"
    /\ bcfg' = [bcfg EXCEPT
          !.num_attention_heads = bin.num_attention_heads,
          !.num_key_value_heads =
              IF bin.num_key_value_heads = NoneVal
              THEN bin.num_attention_heads ELSE bin.num_key_value_heads]
    /\ bpc' = "config_tie"
    /\ UNCHANGED <<bin, battn, bexc>>
    /\ UNCHANGED <<fwdVars, gateVars, loadVars>>

(* tie_word_embeddings = kwargs.pop(...); if tie_word_embeddings: raise;   *)
(* super().__init__(tie_word_embeddings=tie_word_embeddings, **kwargs)     *)
ConfigTie ==
    /\ bpc = "config_tie"
    /\ IF PopTie
       THEN /\ bexc' = [type |-> "ValueError", line |-> 138]
            /\ bpc' = "raised"
            /\ bcfg' = bcfg
       ELSE /\ bcfg' = [bcfg EXCEPT !.tie_word_embeddings = PopTie,
                                    !.built = TRUE]
            /\ bpc' = "attn_fields"
            /\ bexc' = bexc
    /\ UNCHANGED <<bin, battn>>
    /\ UNCHANGED <<fwdVars, gateVars, loadVars>>

(* num_heads, hidden_size, head_size, rotary_emb, softmax_scale *)
AttnFields ==
    /\ bpc = "attn_fields"
    /\ battn' = [battn EXCEPT !.num_heads = bcfg.num_attention_heads,
                              !.rotary_emb = TRUE]
    /\ bpc' = "attn_check"
    /\ UNCHANGED <<bin, bcfg, bexc>>
    /\ UNCHANGED <<fwdVars, gateVars, loadVars>>

(* The divisibility test, then the per-shard head counts *)
AttnCheck ==
    /\ bpc = "attn_check"
    /\ IF HeadsFit(battn.num_heads, bcfg.num_key_value_heads, bin.world_size)
       THEN /\ battn' = [battn EXCEPT
                  !.num_heads = @ \div bin.world_size,
                  !.num_key_value_heads =
                      bcfg.num_key_value_heads \div bin.world_size]
            /\ bpc' = "attn_load"
            /\ bexc' = bexc
       ELSE /\ bexc' = [type |-> "ValueError", line |-> 264]
            /\ bpc' = "raised"
            /\ battn' = battn
    /\ UNCHANGED <<bin, bcfg>>
    /\ UNCHANGED <<fwdVars, gateVars, loadVars>>

(* The next of the projection weights is loaded *)
AttnLoad ==
    /\ bpc = "attn_load"
    /\ LET k == Cardinality(battn.loaded) + 1
       IN /\ battn' = [battn EXCEPT !.loaded = @ \cup {AttnLoads[k]}]
          /\ bpc' = IF k = Len(AttnLoads) THEN "attn_groups" ELSE "attn_load"
    /\ UNCHANGED <<bin, bcfg, bexc>>
    /\ UNCHANGED <<fwdVars, gateVars, loadVars>>

(* num_groups = num_heads // num_key_value_heads; kv_head_mapping *)
AttnGroups ==
    /\ bpc = "attn_groups"
    /\ IF battn.num_key_value_heads = 0
       THEN /\ bexc' = [type |-> "ZeroDivisionError", line |-> 304]
            /\ bpc' = "raised"
            /\ battn' = battn
       ELSE /\ battn' = [battn EXCEPT
                  !.num_groups = battn.num_heads
                                   \div battn.num_key_value_heads,
                  !.built = TRUE]
            /\ bpc' = "built"
            /\ bexc' = bexc
    /\ UNCHANGED <<bin, bcfg>>
    /\ UNCHANGED <<fwdVars, gateVars, loadVars>>

(* The calls: tie_word_embeddings left out, passed by keyword or passed by *)
(* position; another keyword (torch_dtype) passed or not                   *)
BuildInputs ==
    {[tie_how |-> h, tie |-> b, extra |-> x, num_attention_heads |-> n,
      num_key_value_heads |-> kv, world_size |-> w] :
        h \in {"absent", "keyword", "positional"}, b \in BOOLEAN,
        x \in BOOLEAN, n \in 1..MaxHeads,
        kv \in {NoneVal} \cup 1..MaxHeads, w \in 1..MaxWorld}

BuildInit ==
    /\ bpc = "config"
    /\ bin \in {i \in BuildInputs : i.tie_how = "absent" => ~i.tie}
    /\ bcfg = [num_attention_heads |-> 0, num_key_value_heads |-> 0,
               tie_word_embeddings |-> FALSE, built |-> FALSE]
    /\ battn = [num_heads |-> 0, num_key_value_heads |-> 0, num_groups |-> 0,
                rotary_emb |-> FALSE, loaded |-> {}, built |-> FALSE]
    /\ bexc = NoExc
    /\ FwdIdle
    /\ GateIdle
    /\ LoadIdle

BuildNext ==
    \/ ConfigBind
    \/ ConfigTie
    \/ AttnFields
    \/ AttnCheck
    \/ AttnLoad
    \/ AttnGroups

SpecBuild == BuildInit /\ [][BuildNext]_vars

(* C11: with num_attention_heads not divisible by the size of the process  *)
(* group, DeepseekV2Attention.__init__ loads no projection weight and      *)
(* never completes: once past its test it has raised ValueError.           *)
C11_UnevenHeadsFailConstruction ==
    (bin.num_attention_heads % bin.world_size # 0) =>
        /\ battn.loaded = {}
        /\ ~battn.built
        /\ bpc \in {"config", "config_tie", "attn_fields", "attn_check",
                     "raised"}
        /\ bpc = "raised" => bexc = [type |-> "ValueError", line |-> 264]

(* C11's case: the constructor raised at its test, nothing loaded *)
C11_Witness ==
    /\ bin.num_attention_heads % bin.world_size # 0
    /\ bexc = [type |-> "ValueError", line |-> 264]
    /\ battn.rotary_emb
    /\ battn.loaded = {}

(* C12: a call that asks for tied embeddings, by keyword or by position,   *)
(* ends in the ValueError of line 138 and builds no configuration.         *)
C12_TiedEmbeddingsRejected ==
    (bin.tie_how # "absent" /\ bin.tie) =>
        /\ ~bcfg.built
        /\ bpc \notin {"config", "config_tie"} =>
              bexc = [type |-> "ValueError", line |-> 138]

----------------------------------------------------------------------------
(* DenseMoE.forward: the loop over the experts *)

(* The experts the masking left to the token *)
Selected == DOMAIN weights \ masked

(* The sum of h * weight over the experts in I, in units of 1 / gnorm *)
WeightedSum(I) ==
    SumOver([i \in DOMAIN ghs |-> ghs[i].h * weights[i]], I)

(* The loop is over: every expert 0..n_experts-1 was evaluated once, in    *)
(* index order                                                             *)
EveryExpertOnce ==
    /\ Len(ghs) = Len(weights)
    /\ \A k \in DOMAIN ghs : ghs[k].expert = k

====
